---- MODULE Spec2Model ----
(***************************************************************************)
(* dox-agent: the draft -> execute_tools -> revise loop of                 *)
(* dox_agent/graph (builder.py, nodes.py), the command line entry point    *)
(* dox_agent/cli.py (main, update_settings) and the reference rendering    *)
(* of cli.py (parse_reference, format_reference).                          *)
(*                                                                         *)
(* The completion service and the search service are external: a           *)
(* completion call returns one AIMessage holding tool calls or fails, a    *)
(* search call returns a payload or fails.  A search payload is modelled   *)
(* by the number of the search call that produced it, so two calls never   *)
(* share a payload, whatever their query strings.                          *)
(***************************************************************************)
EXTENDS Integers, Sequences, FiniteSets, TLC

VARIABLES
    pc,                      \* position of the run: "main", "draft", "execute_tools", "revise", "END", "error", "format", "formatted"
    settings_MAX_ITERATIONS, \* settings.MAX_ITERATIONS, the mutable global of config/settings.py
    create_graph_default,    \* the default value bound to create_graph's parameter when builder.py is imported
    cli_max_iterations,      \* the --max-iterations option given to main (None when absent)
    max_iterations,          \* the threshold the event_loop closure of the compiled graph holds
    input,                   \* what graph.invoke / draft_node is given
    history,                 \* the graph state: the list of messages
    visited,                 \* the nodes that ran to completion, in order
    searchLog,               \* the query strings handed to search_tool.execute, in order
    completions,             \* number of requests made to the completion service (first_responder, revisor)
    err,                     \* "" or the error that ended the run
    ref,                     \* the reference string given to format_reference (a token sequence)
    rendered                 \* what format_reference produced

vars == <<pc, settings_MAX_ITERATIONS, create_graph_default, cli_max_iterations,
          max_iterations, input, history, visited, searchLog, completions, err,
          ref, rendered>>

graphVars == <<settings_MAX_ITERATIONS, create_graph_default, cli_max_iterations,
               max_iterations, input, history, visited, searchLog, completions, err>>

----------------------------------------------------------------------------
(* Bounds *)

\* max_iterations values range over 0..MaxIterations
MaxIterations == 2

\* longest pre-built input list handed to draft_node
MaxInputLen == 2

\* longest reference string, in tokens
MaxRefLen == 5

\* "1-3 search queries" of AnswerQuestion.search_queries
MaxQueries == 3

\* The graph runtime ends a run that has not reached END after a fixed number
\* of node executions.  The limit of the model leaves room for the longest
\* regular run: one draft and MaxIterations + 1 execute_tools/revise pairs.
StepLimit == 2 * MaxIterations + 3

\* Python's None for an absent integer option
None == -1

Question == "Q"

----------------------------------------------------------------------------
(* Messages *)

NoId == <<>>

HumanMessage(c) ==
    [type |-> "human", content |-> c, tool_calls |-> <<>>,
     tool_call_id |-> NoId, outputs |-> <<>>]

AIMessage(calls) ==
    [type |-> "ai", content |-> "", tool_calls |-> calls,
     tool_call_id |-> NoId, outputs |-> <<>>]

\* ToolMessage(content=json.dumps(query_outputs), tool_call_id=id_)
ToolMessage(id, query_outputs) ==
    [type |-> "tool", content |-> "", tool_calls |-> <<>>,
     tool_call_id |-> id, outputs |-> query_outputs]

\* a bare Python string inside a list
RawString(c) ==
    [type |-> "str", content |-> c, tool_calls |-> <<>>,
     tool_call_id |-> NoId, outputs |-> <<>>]

\* a list element that is neither a message nor a string
Unrecognized ==
    [type |-> "other", content |-> "", tool_calls |-> <<>>,
     tool_call_id |-> NoId, outputs |-> <<>>]

\* the inputs of draft_node: a string, a list, anything else
StrInput(s) == [kind |-> "str", text |-> s, items |-> <<>>]
ListInput(l) == [kind |-> "list", text |-> "", items |-> l]
OtherInput == [kind |-> "other", text |-> "", items |-> <<>>]

Last(s) == s[Len(s)]

IsPrefix(s, t) == Len(s) <= Len(t) /\ SubSeq(t, 1, Len(s)) = s

----------------------------------------------------------------------------
(* The completion service *)

\* the k-query list "a", "b", "a", ...: from length 3 on a string repeats
QueryList(k) == [i \in 1..k |-> IF i % 2 = 1 THEN "a" ELSE "b"]

Call(slot, queries) == [slot |-> slot, search_queries |-> queries]

\* What a completion may return: one tool call with 0..MaxQueries queries, or
\* two tool calls (second with no query, or with two).
Replies ==
    { <<Call(1, QueryList(k))>> : k \in 0..MaxQueries }
    \cup { <<Call(1, QueryList(1)), Call(2, QueryList(k))>> : k \in {0, 2} }

\* The reply of the n-th completion call as an AIMessage: the service gives
\* every tool call an identifier of its own.
Completion(n, reply) ==
    AIMessage([i \in 1..Len(reply) |->
                 [id |-> <<n, reply[i].slot>>,
                  search_queries |-> reply[i].search_queries]])

----------------------------------------------------------------------------
(* graph/nodes.py *)

\* draft_node without the test for an empty list
draft_node_unchecked(state) ==
    IF state.kind = "str"
    THEN [raises |-> FALSE, messages |-> <<HumanMessage(state.text)>>]
    ELSE IF state.kind = "list"
    THEN IF state.items # <<>> /\ Last(state.items).type = "str"
         THEN [raises |-> FALSE,
               messages |-> <<HumanMessage(Last(state.items).content)>>]
         ELSE [raises |-> FALSE, messages |-> state.items]
    ELSE [raises |-> TRUE, messages |-> <<>>]

\* draft_node, up to the call of first_responder: the messages it hands to
\* the chain, or the ValueError it raises
draft_node(state) ==
    IF state.kind = "str"
    THEN [raises |-> FALSE, messages |-> <<HumanMessage(state.text)>>]
    ELSE IF state.kind = "list"
    THEN IF state.items = <<>>
         THEN [raises |-> TRUE, messages |-> <<>>]
         ELSE IF Last(state.items).type = "str"
         THEN [raises |-> FALSE,
               messages |-> <<HumanMessage(Last(state.items).content)>>]
         ELSE [raises |-> FALSE, messages |-> state.items]
    ELSE [raises |-> TRUE, messages |-> <<>>]

\* The prompt template fills its MessagesPlaceholder with the list it is given
\* and raises, before any completion request, for an element that is neither
\* a message nor a string.
ChainAccepts(messages) ==
    \A i \in 1..Len(messages) : messages[i].type # "other"

\* parser.invoke(tool_invocation): the tool calls of the message, with ids
parser_invoke(msg) == msg.tool_calls

\* the loop that builds tool_invocations and ids: one entry per query, in
\* the order of the calls and of each call's search_queries
RECURSIVE ToolInvocations(_)
ToolInvocations(parsed_tool_calls) ==
    IF parsed_tool_calls = <<>>
    THEN <<>>
    ELSE LET parsed_call == Head(parsed_tool_calls)
         IN  [i \in 1..Len(parsed_call.search_queries) |->
                 [id |-> parsed_call.id,
                  tool_input |-> parsed_call.search_queries[i]]]
             \o ToolInvocations(Tail(parsed_tool_calls))

\* SearchCalls with a cache: a query string is searched once per pass
RECURSIVE SearchCallsMemo(_)
SearchCallsMemo(tool_invocations) ==
    IF tool_invocations = <<>>
    THEN <<>>
    ELSE LET n == Len(tool_invocations)
             front == SubSeq(tool_invocations, 1, n - 1)
         IN  IF \E i \in 1..(n - 1) :
                    tool_invocations[i].tool_input = tool_invocations[n].tool_input
             THEN SearchCallsMemo(front)
             ELSE Append(SearchCallsMemo(front), tool_invocations[n].tool_input)

\* the queries search_tool.execute is called with, in order: one call per
\* invocation
SearchCalls(tool_invocations) ==
    [i \in 1..Len(tool_invocations) |-> tool_invocations[i].tool_input]

\* DictSet that leaves an existing key alone (dict.setdefault)
DictSetDefault(d, k, v) ==
    IF \E i \in 1..Len(d) : d[i][1] = k
    THEN d
    ELSE Append(d, <<k, v>>)

\* d[k] = v on a Python dict kept as a sequence of <<key, value>> pairs in
\* insertion order: an existing key keeps its place and takes the new value
DictSet(d, k, v) ==
    IF \E i \in 1..Len(d) : d[i][1] = k
    THEN [i \in 1..Len(d) |-> IF d[i][1] = k THEN <<k, v>> ELSE d[i]]
    ELSE Append(d, <<k, v>>)

DictGet(d, k, default) ==
    IF \E i \in 1..Len(d) : d[i][1] = k
    THEN (CHOOSE p \in {d[i] : i \in 1..Len(d)} : p[1] = k)[2]
    ELSE default

\* OutputsMap that keeps the first query of the batch only
OutputsMapFirst(tool_invocations, outputs, n) ==
    IF n = 0
    THEN <<>>
    ELSE << <<tool_invocations[1].id,
              << <<tool_invocations[1].tool_input, outputs[1]>> >> >> >>

\* outputs_map after the first n triples of zip(ids, outputs, tool_invocations)
RECURSIVE OutputsMap(_, _, _)
OutputsMap(tool_invocations, outputs, n) ==
    IF n = 0
    THEN <<>>
    ELSE LET m == OutputsMap(tool_invocations, outputs, n - 1)
             id_ == tool_invocations[n].id
         IN  DictSet(m, id_,
                     DictSet(DictGet(m, id_, <<>>),
                             tool_invocations[n].tool_input, outputs[n]))

\* execute_tools_node when every search returns: the ToolMessages it returns.
\* calls is the number of search calls made before this pass.
execute_tools_node(state, calls) ==
    LET tool_invocations == ToolInvocations(parser_invoke(Last(state)))
        outputs == [i \in 1..Len(tool_invocations) |-> calls + i]
        outputs_map == OutputsMap(tool_invocations, outputs, Len(tool_invocations))
    IN  [i \in 1..Len(outputs_map) |->
            ToolMessage(outputs_map[i][1], outputs_map[i][2])]

----------------------------------------------------------------------------
(* graph/builder.py *)

\* count_tool_visits counting the AIMessages instead of the ToolMessages
count_ai_visits(state) ==
    Cardinality({i \in 1..Len(state) : state[i].type = "ai"})

count_tool_visits(state) ==
    Cardinality({i \in 1..Len(state) : state[i].type = "tool"})

\* event_loop that sends the run back to the entry point
event_loop_redraft(state, threshold) ==
    IF Cardinality({i \in 1..Len(state) : state[i].type = "tool"}) > threshold
    THEN "END" ELSE "draft"

\* event_loop with the comparison turned into >=
event_loop_ge(state, threshold) ==
    IF Cardinality({i \in 1..Len(state) : state[i].type = "tool"}) >= threshold
    THEN "END" ELSE "execute_tools"

event_loop(state, threshold) ==
    IF count_tool_visits(state) > threshold THEN "END" ELSE "execute_tools"

\* add_messages that overwrites the last message of a history of three or more
add_messages_overwrite(left, right) ==
    IF Len(left) >= 3 /\ right # <<>>
    THEN SubSeq(left, 1, Len(left) - 1) \o right
    ELSE left \o right

\* the state update of MessageGraph: what a node returns is added at the end
add_messages(left, right) == left \o right

----------------------------------------------------------------------------
(* cli.py *)

update_settings(current, option) ==
    IF option # None THEN option ELSE current

\* A reference string is a sequence of tokens: braces, a colon, the string
\* literals 'Author' and 'x', a bare word and a blank.
RefAlphabet == {"{", "}", ":", "'Author'", "'x'", "w", " "}

RefStrings == UNION {[1..n -> RefAlphabet] : n \in 0..MaxRefLen}

RefIndexes == 1..2

IsLiteral(tok) == tok \in {"'Author'", "'x'"}

\* str.strip(): without the blanks at both ends
RECURSIVE strip(_)
strip(s) ==
    IF s = <<>> THEN s
    ELSE IF Head(s) = " " THEN strip(Tail(s))
    ELSE IF Last(s) = " " THEN strip(SubSeq(s, 1, Len(s) - 1))
    ELSE s

startswith(s, tok) == s # <<>> /\ Head(s) = tok

\* Python values: a string (its literal tokens, adjacent literals being one
\* string), a dict (<<key, value>> pairs), a set (its elements)
NoValue == [ok |-> FALSE, kind |-> "none", text |-> <<>>, items |-> <<>>]
StrValue(t) == [ok |-> TRUE, kind |-> "str", text |-> t, items |-> <<>>]
DictValue(pairs) == [ok |-> TRUE, kind |-> "dict", text |-> <<>>, items |-> pairs]
SetValue(elems) == [ok |-> TRUE, kind |-> "set", text |-> <<>>, items |-> elems]

\* nesting depth of position i: open braces minus closed braces before it
Depth(t, i) ==
    Cardinality({j \in 1..(i - 1) : t[j] = "{"})
    - Cardinality({j \in 1..(i - 1) : t[j] = "}"})

\* The value of a token sequence that is a Python literal, NoValue when
\* ast.literal_eval raises (a syntax error, a name, an unhashable key or
\* element).  Without a comma token a display holds at most one item.
RECURSIVE Literal(_)
Literal(t) ==
    IF t = <<>>
    THEN NoValue
    ELSE IF \A i \in 1..Len(t) : IsLiteral(t[i])
    THEN StrValue(t)
    ELSE IF Len(t) >= 2 /\ Head(t) = "{" /\ Last(t) = "}"
    THEN LET inner == SubSeq(t, 2, Len(t) - 1)
             colons == {i \in 1..Len(inner) :
                           inner[i] = ":" /\ Depth(inner, i) = 0}
         IN  IF inner = <<>>
             THEN DictValue(<<>>)
             ELSE IF colons = {}
             THEN LET e == Literal(inner)
                  IN  IF e.ok /\ e.kind = "str"
                      THEN SetValue(<<e.text>>)
                      ELSE NoValue
             ELSE IF Cardinality(colons) = 1
             THEN LET c == CHOOSE i \in colons : TRUE
                      k == Literal(SubSeq(inner, 1, c - 1))
                      v == Literal(SubSeq(inner, c + 1, Len(inner)))
                  IN  IF k.ok /\ k.kind = "str" /\ v.ok
                      THEN DictValue(<< <<k.text, v>> >>)
                      ELSE NoValue
             ELSE NoValue
    ELSE NoValue

\* ast.literal_eval: blanks between tokens and before the first do not count
literal_eval(s) == Literal(SelectSeq(s, LAMBDA tok : tok # " "))

TextKey == <<"'text'">>
AuthorKey == <<"'Author'">>
TitleKey == <<"'Title'">>
URLKey == <<"'URL'">>
DateKey == <<"'Date'">>

\* parse_reference: every exception gives the {"text": ref} record
parse_reference(s) ==
    IF startswith(strip(s), "{") /\ literal_eval(s).ok
    THEN literal_eval(s)
    ELSE DictValue(<< <<TextKey, StrValue(s)>> >>)

\* key in value, for a dict (its keys) and for a set (its elements)
Contains(value, key) ==
    IF value.kind = "dict"
    THEN \E i \in 1..Len(value.items) : value.items[i][1] = key
    ELSE \E i \in 1..Len(value.items) : value.items[i] = key

\* format_reference for a string: the line it returns or the exception it
\* raises.  Only a dict has a get method.
format_reference(s, index) ==
    LET ref_dict == parse_reference(s)
    IN  IF Contains(ref_dict, AuthorKey)
        THEN IF ref_dict.kind = "dict"
             THEN [kind |-> "structured", index |-> index,
                   fields |-> <<DictGet(ref_dict.items, AuthorKey, "No Author"),
                                DictGet(ref_dict.items, TitleKey, "No Title"),
                                DictGet(ref_dict.items, URLKey, "No URL"),
                                DictGet(ref_dict.items, DateKey, "N/A")>>]
             ELSE [kind |-> "AttributeError", index |-> index, fields |-> <<>>]
        ELSE IF ref_dict.kind = "dict"
             THEN [kind |-> "text", index |-> index,
                   fields |-> <<DictGet(ref_dict.items, TextKey, StrValue(s))>>]
             ELSE [kind |-> "AttributeError", index |-> index, fields |-> <<>>]

----------------------------------------------------------------------------
(* The run *)

Init ==
    /\ pc = "main"
    /\ settings_MAX_ITERATIONS \in 0..MaxIterations
    /\ create_graph_default = settings_MAX_ITERATIONS
    /\ cli_max_iterations = None
    /\ max_iterations = None
    /\ input = StrInput(Question)
    /\ history = <<>>
    /\ visited = <<>>
    /\ searchLog = <<>>
    /\ completions = 0
    /\ err = ""
    /\ ref = <<>>
    /\ rendered = [kind |-> "none"]

\* main: update_settings(max_iterations, ...), then graph = create_graph()
Main ==
    /\ pc = "main"
    /\ \E option \in {None} \cup 0..MaxIterations :
         /\ cli_max_iterations' = option
         /\ settings_MAX_ITERATIONS' = update_settings(settings_MAX_ITERATIONS, option)
    /\ max_iterations' = create_graph_default
    /\ pc' = "draft"
    /\ UNCHANGED <<create_graph_default, input, history, visited, searchLog,
                   completions, err, ref, rendered>>

Draft ==
    /\ pc = "draft"
    /\ LET d == draft_node(input)
       IN  IF d.raises
           THEN /\ pc' = "error"
                /\ err' = "InvalidState"
                /\ UNCHANGED <<history, visited, completions>>
           ELSE IF ~ChainAccepts(d.messages)
           THEN /\ pc' = "error"
                /\ err' = "UnsupportedMessage"
                /\ UNCHANGED <<history, visited, completions>>
           ELSE /\ completions' = completions + 1
                /\ \/ \E reply \in Replies :
                        /\ history' = add_messages(d.messages,
                                         <<Completion(completions + 1, reply)>>)
                        /\ visited' = Append(visited, "draft")
                        /\ pc' = "execute_tools"
                        /\ err' = err
                   \/ /\ pc' = "error"
                      /\ err' = "CompletionError"
                      /\ UNCHANGED <<history, visited>>
    /\ UNCHANGED <<settings_MAX_ITERATIONS, create_graph_default, cli_max_iterations,
                   max_iterations, input, searchLog, ref, rendered>>

\* ExecuteTools that records a failed search and goes on to revise with the
\* results of the searches before it
ExecuteToolsSwallowing ==
    /\ pc = "execute_tools"
    /\ Len(visited) < StepLimit
    /\ LET invocations == ToolInvocations(parser_invoke(Last(history)))
           issued == SearchCalls(invocations)
       IN  \/ /\ searchLog' = searchLog \o issued
              /\ history' = add_messages(history,
                               execute_tools_node(history, Len(searchLog)))
              /\ err' = err
           \/ \E j \in 1..Len(issued) :
                 /\ searchLog' = searchLog \o SubSeq(issued, 1, j)
                 /\ err' = "SearchError"
                 /\ history' = add_messages(history,
                       LET m == OutputsMap(invocations,
                                   [i \in 1..Len(invocations) |-> Len(searchLog) + i],
                                   j - 1)
                       IN  [i \in 1..Len(m) |-> ToolMessage(m[i][1], m[i][2])])
    /\ visited' = Append(visited, "execute_tools")
    /\ pc' = "revise"
    /\ UNCHANGED <<settings_MAX_ITERATIONS, create_graph_default, cli_max_iterations,
                   max_iterations, input, completions, ref, rendered>>

ExecuteTools ==
    /\ pc = "execute_tools"
    /\ Len(visited) < StepLimit
    /\ LET issued == SearchCalls(ToolInvocations(parser_invoke(Last(history))))
       IN  \/ /\ searchLog' = searchLog \o issued
              /\ history' = add_messages(history,
                               execute_tools_node(history, Len(searchLog)))
              /\ visited' = Append(visited, "execute_tools")
              /\ pc' = "revise"
              /\ err' = err
           \/ \E j \in 1..Len(issued) :
                 /\ searchLog' = searchLog \o SubSeq(issued, 1, j)
                 /\ pc' = "error"
                 /\ err' = "SearchError"
                 /\ UNCHANGED <<history, visited>>
    /\ UNCHANGED <<settings_MAX_ITERATIONS, create_graph_default, cli_max_iterations,
                   max_iterations, input, completions, ref, rendered>>

\* Revise with the termination rule applied before the completion call: a
\* history that already holds enough tool-result turns is returned as it is
ReviseCheckingFirst ==
    /\ pc = "revise"
    /\ Len(visited) < StepLimit
    /\ visited' = Append(visited, "revise")
    /\ IF event_loop(history, max_iterations) = "END"
       THEN /\ pc' = "END"
            /\ UNCHANGED <<history, completions, err>>
       ELSE /\ completions' = completions + 1
            /\ \E reply \in Replies :
                  history' = add_messages(history,
                                <<Completion(completions + 1, reply)>>)
            /\ pc' = "execute_tools"
            /\ err' = err
    /\ UNCHANGED <<settings_MAX_ITERATIONS, create_graph_default, cli_max_iterations,
                   max_iterations, input, searchLog, ref, rendered>>

\* Revise that calls the completion service again after a failure
ReviseRetrying ==
    /\ pc = "revise"
    /\ Len(visited) < StepLimit
    /\ completions' = completions + 1
    /\ \/ \E reply \in Replies :
            /\ history' = add_messages(history,
                             <<Completion(completions + 1, reply)>>)
            /\ visited' = Append(visited, "revise")
            /\ pc' = event_loop(history', max_iterations)
            /\ err' = ""
       \/ /\ err = ""
          /\ pc' = "revise"
          /\ err' = "CompletionError"
          /\ UNCHANGED <<history, visited>>
    /\ UNCHANGED <<settings_MAX_ITERATIONS, create_graph_default, cli_max_iterations,
                   max_iterations, input, searchLog, ref, rendered>>

Revise ==
    /\ pc = "revise"
    /\ Len(visited) < StepLimit
    /\ completions' = completions + 1
    /\ \/ \E reply \in Replies :
            /\ history' = add_messages(history,
                             <<Completion(completions + 1, reply)>>)
            /\ visited' = Append(visited, "revise")
            /\ pc' = event_loop(history', max_iterations)
            /\ err' = err
       \/ /\ pc' = "error"
          /\ err' = "CompletionError"
          /\ UNCHANGED <<history, visited>>
    /\ UNCHANGED <<settings_MAX_ITERATIONS, create_graph_default, cli_max_iterations,
                   max_iterations, input, searchLog, ref, rendered>>

\* the runtime's step limit: the next node is not run
RecursionLimit ==
    /\ pc \in {"execute_tools", "revise"}
    /\ Len(visited) >= StepLimit
    /\ pc' = "error"
    /\ err' = "GraphRecursionError"
    /\ UNCHANGED <<settings_MAX_ITERATIONS, create_graph_default, cli_max_iterations,
                   max_iterations, input, history, visited, searchLog,
                   completions, ref, rendered>>

Next ==
    \/ Main
    \/ Draft
    \/ ExecuteTools
    \/ Revise
    \/ RecursionLimit

Spec == Init /\ [][Next]_vars

\* every node that can run does run: the graph runtime schedules the next
\* node as soon as the previous one returned
FairSpec == Spec /\ WF_vars(Next)

----------------------------------------------------------------------------
(* draft_node on every kind of input *)

PriorCall == [id |-> <<0, 1>>, search_queries |-> QueryList(1)]

InputElements ==
    {HumanMessage(Question), RawString(Question), Unrecognized,
     AIMessage(<<PriorCall>>), ToolMessage(<<0, 1>>, << <<"a", 0>> >>)}

DraftInputs ==
    {StrInput(Question), OtherInput}
    \cup {ListInput(l) : l \in UNION {[1..n -> InputElements] : n \in 0..MaxInputLen}}

InitDraft ==
    /\ pc = "draft"
    /\ settings_MAX_ITERATIONS = 0
    /\ create_graph_default = 0
    /\ cli_max_iterations = None
    /\ max_iterations = 0
    /\ input \in DraftInputs
    /\ history = <<>>
    /\ visited = <<>>
    /\ searchLog = <<>>
    /\ completions = 0
    /\ err = ""
    /\ ref = <<>>
    /\ rendered = [kind |-> "none"]

NextDraft == Draft

SpecDraft == InitDraft /\ [][NextDraft]_vars

----------------------------------------------------------------------------
(* format_reference on every reference string *)

InitRef ==
    /\ pc = "format"
    /\ settings_MAX_ITERATIONS = 0
    /\ create_graph_default = 0
    /\ cli_max_iterations = None
    /\ max_iterations = None
    /\ input = OtherInput
    /\ history = <<>>
    /\ visited = <<>>
    /\ searchLog = <<>>
    /\ completions = 0
    /\ err = ""
    /\ ref \in [text : RefStrings, index : RefIndexes]
    /\ rendered = [kind |-> "none"]

FormatReference ==
    /\ pc = "format"
    /\ rendered' = format_reference(ref.text, ref.index)
    /\ pc' = "formatted"
    /\ UNCHANGED <<graphVars, ref>>

NextRef == FormatReference

SpecRef == InitRef /\ [][NextRef]_vars

----------------------------------------------------------------------------
(* Properties *)

ToolTurns(h) == Len(SelectSeq(h, LAMBDA m : m.type = "tool"))

Count(seq, x) == Len(SelectSeq(seq, LAMBDA y : y = x))

Proposals(h) == SelectSeq(h, LAMBDA m : m.type = "ai")

\* the search queries of a message, call after call
RECURSIVE QueriesOfCalls(_)
QueriesOfCalls(calls) ==
    IF calls = <<>> THEN <<>>
    ELSE Head(calls).search_queries \o QueriesOfCalls(Tail(calls))

\* the search queries of the first n messages of a sequence of proposals
RECURSIVE QueriesOfFirst(_, _)
QueriesOfFirst(proposals, n) ==
    IF n = 0 THEN <<>>
    ELSE QueriesOfFirst(proposals, n - 1) \o QueriesOfCalls(proposals[n].tool_calls)

\* every message of the history carries exactly one proposal
OneProposalEach(h) ==
    \A i \in 1..Len(h) : h[i].type = "ai" => Len(h[i].tool_calls) = 1

\* every proposal of the history carries at least one query
NoEmptyQueryList(h) ==
    \A i \in 1..Len(h) : h[i].type = "ai" =>
        \A c \in 1..Len(h[i].tool_calls) : h[i].tool_calls[c].search_queries # <<>>

\* draft, then n execute_tools/revise pairs
RECURSIVE Pairs(_)
Pairs(n) ==
    IF n = 0 THEN <<"draft">>
    ELSE Pairs(n - 1) \o <<"execute_tools", "revise">>

C3_OneTurnPerPass ==
    [][ (/\ pc = "execute_tools"
         /\ visited' = Append(visited, "execute_tools")
         /\ Len(Last(history).tool_calls) = 1) =>
            /\ Len(history') = Len(history) + 1
            /\ Last(history').type = "tool"
            /\ ToolTurns(history') = ToolTurns(history) + 1
      ]_vars

\* C4: as long as no search call failed, the search calls issued so far are
\* the queries of the executed proposals, one call per query, in list order,
\* repeated strings included: their number is the sum of the lengths of the
\* executed query lists.
C4_OneCallPerQuery ==
    err # "SearchError" =>
        searchLog = QueriesOfFirst(Proposals(history), Count(visited, "execute_tools"))

\* two passes were executed and a query string was searched twice within the
\* second pass and once in the first
C4_Witness ==
    /\ err = ""
    /\ Count(visited, "execute_tools") = 2
    /\ Len(searchLog) = 4
    /\ searchLog[1] = "a" /\ searchLog[2] = "a" /\ searchLog[4] = "a"

\* C5: with every node scheduled as soon as it can run, an invocation in
\* which no completion call and no search call fails eventually reaches END.
C5_Terminates ==
    <>(pc = "END" \/ err \in {"CompletionError", "SearchError"})

\* C6: once main has created the graph, a --max-iterations option that was
\* given is the threshold the termination rule uses.
C6_OverrideUsed ==
    (pc # "main" /\ cli_max_iterations # None) =>
        max_iterations = cli_max_iterations

HasUnrecognized(l) == \E i \in 1..Len(l) : l[i].type = "other"

\* C7 as stated: given an empty list or a list holding an element that is
\* not a turn, DRAFT ends in an error with no completion call and no turn.
C7_Original ==
    (/\ pc # "draft"
     /\ input.kind = "list"
     /\ (input.items = <<>> \/ HasUnrecognized(input.items))) =>
        (pc = "error" /\ completions = 0 /\ history = <<>>)

\* C7 amended: DRAFT raises its invalid-state error, with no completion call
\* and no turn, exactly for an empty list and for an input that is neither a
\* string nor a list; it does not inspect the elements of a list.  A string,
\* or a list whose last element is a string (whatever its other elements),
\* becomes the one-turn history holding that string, to which the reply is
\* added; any other non-empty list is handed on as it is.
C7_DraftEntry ==
    pc # "draft" =>
        /\ (err = "InvalidState") <=>
               (input.kind = "other" \/ (input.kind = "list" /\ input.items = <<>>))
        /\ (err = "InvalidState") => (completions = 0 /\ history = <<>>)
        /\ (pc = "execute_tools" /\ input.kind = "str") =>
               (/\ Len(history) = 2
                /\ history[1] = HumanMessage(input.text)
                /\ history[2].type = "ai")
        /\ (pc = "execute_tools" /\ input.kind = "list"
              /\ Last(input.items).type = "str") =>
               (/\ Len(history) = 2
                /\ history[1] = HumanMessage(Last(input.items).content)
                /\ history[2].type = "ai")
        /\ (pc = "execute_tools" /\ input.kind = "list"
              /\ Last(input.items).type # "str") =>
               (/\ Len(history) = Len(input.items) + 1
                /\ SubSeq(history, 1, Len(input.items)) = input.items
                /\ Last(history).type = "ai")

\* a list made of an unrecognized element and a question string was drafted
C7_Witness ==
    /\ pc = "execute_tools"
    /\ input.kind = "list"
    /\ Len(input.items) = 2
    /\ input.items[1].type = "other"
    /\ input.items[2].type = "str"
    /\ history[1] = HumanMessage(Question)
    /\ completions = 1

\* the keys of an aggregated mapping
Keys(d) == {d[i][1] : i \in 1..Len(d)}

Elems(seq) == {seq[i] : i \in 1..Len(seq)}

OnlyFirstIsQuestion(h) ==
    /\ h[1].type = "human"
    /\ \A i \in 2..Len(h) : h[i].type # "human"

\* proposal c of message i has queries and a tool-result turn aggregating
\* them stands at position j
AggregatedAt(h, i, c, j) ==
    /\ h[j].type = "tool"
    /\ h[j].tool_call_id = h[i].tool_calls[c].id
    /\ Keys(h[j].outputs) = Elems(h[i].tool_calls[c].search_queries)

\* C8 as stated, for the history returned at termination: the first turn is
\* the only question, and every proposal with at least one query is followed
\* later by a tool-result turn aggregating its queries.
C8_Original ==
    pc = "END" =>
        /\ OnlyFirstIsQuestion(history)
        /\ \A i \in 1..Len(history) :
             \A c \in 1..Len(history[i].tool_calls) :
                history[i].tool_calls[c].search_queries # <<>> =>
                   \E j \in (i + 1)..Len(history) : AggregatedAt(history, i, c, j)

\* C8 amended: in every history reached from a single question the first
\* turn is the only question, and every proposal with at least one query,
\* other than those of the last turn, is followed by a tool-result turn
\* aggregating its queries, before the next completion reply; the proposals
\* of the last turn of a returned history have no tool-result turn.
C8_HistoryShape ==
    history # <<>> =>
        /\ OnlyFirstIsQuestion(history)
        /\ \A i \in 1..(Len(history) - 1) :
             \A c \in 1..Len(history[i].tool_calls) :
                history[i].tool_calls[c].search_queries # <<>> =>
                   \E j \in (i + 1)..Len(history) :
                      /\ AggregatedAt(history, i, c, j)
                      /\ \A k \in (i + 1)..j : history[k].type = "tool"
        /\ pc = "END" =>
             /\ Last(history).type = "ai"
             /\ \A j \in 1..Len(history) : \A c \in 1..Len(Last(history).tool_calls) :
                   history[j].tool_call_id # Last(history).tool_calls[c].id

\* a returned history whose first proposal had a repeated query and whose
\* last proposal has queries
C8_Witness ==
    /\ pc = "END"
    /\ Len(history[2].tool_calls[1].search_queries) = 3
    /\ Last(history).tool_calls[1].search_queries # <<>>

\* C9: every step leaves the turns of the history in place and only adds
\* turns at the end: DRAFT the reply after the question, EXECUTE_TOOLS
\* tool-result turns, REVISE one reply.
C9_AppendOnly ==
    [][ /\ IsPrefix(history, history')
        /\ (pc = "draft" /\ pc' = "execute_tools") =>
              (/\ Len(history') = 2
               /\ history'[1] = HumanMessage(input.text)
               /\ history'[2].type = "ai")
        /\ (pc = "execute_tools" /\ pc' = "revise") =>
              \A i \in (Len(history) + 1)..Len(history') : history'[i].type = "tool"
        /\ (pc = "revise" /\ pc' \in {"execute_tools", "END"}) =>
              (Len(history') = Len(history) + 1 /\ Last(history').type = "ai")
      ]_vars

\* a returned history of two passes
C9_Witness ==
    /\ pc = "END"
    /\ Count(visited, "revise") = 2
    /\ Len(history) >= 6

\* C10: format_reference returns a line for every reference string: the
\* structured line when the string parses to a record with an Author field,
\* the free-text line otherwise.
C10_NeverFails ==
    pc = "formatted" =>
        /\ rendered.kind \in {"structured", "text"}
        /\ (rendered.kind = "structured") <=>
              (/\ startswith(strip(ref.text), "{")
               /\ literal_eval(ref.text).kind = "dict"
               /\ Contains(literal_eval(ref.text), AuthorKey))

\* the identifiers of a batch of parsed tool calls
IdsOf(calls) == {calls[c].id : c \in 1..Len(calls)}

\* C11: an EXECUTE_TOOLS pass emits as many tool-result turns as there are
\* distinct proposal identifiers in the batch of parsed tool calls, each
\* turn carrying one of these identifiers, and emits them together with the
\* last search call of the pass.
C11_OneTurnPerIdentifier ==
    [][ (pc = "execute_tools" /\ visited' = Append(visited, "execute_tools")) =>
            /\ Len(history') - Len(history)
                 = Cardinality(IdsOf(Last(history).tool_calls))
            /\ \A j \in (Len(history) + 1)..Len(history') :
                  /\ history'[j].type = "tool"
                  /\ history'[j].tool_call_id \in IdsOf(Last(history).tool_calls)
            /\ Len(searchLog') - Len(searchLog)
                 = Len(QueriesOfCalls(Last(history).tool_calls))
      ]_vars

\* C12: the nodes run in the order draft, then execute_tools and revise in
\* turn; draft runs once and first, execute_tools comes after draft or
\* revise, revise after execute_tools, END after revise.
C12_StepOrder ==
    /\ \E n \in 0..Len(visited) : IsPrefix(visited, Pairs(n))
    /\ pc = "draft" => visited = <<>>
    /\ pc = "execute_tools" =>
          (visited # <<>> /\ Last(visited) \in {"draft", "revise"})
    /\ pc = "revise" => (visited # <<>> /\ Last(visited) = "execute_tools")
    /\ pc = "END" => (visited # <<>> /\ Last(visited) = "revise")

\* a run that went from revise back to execute_tools and ended after the
\* second revise
C12_Witness ==
    /\ pc = "END"
    /\ visited = Pairs(2)

\* C13: the step in which a completion call fails adds no turn and ends the
\* run in an error; after that no completion call and no search call is
\* made and no turn is added.
C13_CompletionFatal ==
    [][ /\ (err # "CompletionError" /\ err' = "CompletionError") =>
              (/\ pc \in {"draft", "revise"}
               /\ pc' = "error"
               /\ history' = history
               /\ completions' = completions + 1)
        /\ err = "CompletionError" =>
              (/\ pc' = "error"
               /\ err' = err
               /\ history' = history
               /\ completions' = completions
               /\ searchLog' = searchLog)
      ]_vars

\* the completion call of the second REVISE failed
C13_Witness ==
    /\ pc = "error"
    /\ err = "CompletionError"
    /\ visited = Pairs(1) \o <<"execute_tools">>
    /\ completions = 3

\* C14: the last turn of a returned history is the reply of the latest
\* completion call, made by the REVISE step that ran last; it is not a
\* tool-result turn, not the question and not the reply of DRAFT (the first
\* completion call), and it holds a proposal to read the answer from.
C14_LastTurnIsRevision ==
    pc = "END" =>
        /\ Last(visited) = "revise"
        /\ Last(history).type = "ai"
        /\ Len(Last(history).tool_calls) >= 1
        /\ completions >= 2
        /\ \A c \in 1..Len(Last(history).tool_calls) :
              Last(history).tool_calls[c].id[1] = completions
        /\ \A i \in 1..(Len(history) - 1) :
              history[i].type = "ai" =>
                 \A c \in 1..Len(history[i].tool_calls) :
                    history[i].tool_calls[c].id[1] < completions

\* a returned history whose last turn follows a tool-result turn
C14_Witness ==
    /\ pc = "END"
    /\ Len(history) >= 4
    /\ history[Len(history) - 1].type = "tool"
    /\ Last(history).tool_calls[1].id[1] = 2

\* C15: the pass in which a search call fails adds no tool-result turn, not
\* even for the searches that returned before the failure; it ends the run
\* in an error with the history as it was, and no REVISE, completion call or
\* search call follows.
C15_SearchFatal ==
    [][ /\ (err # "SearchError" /\ err' = "SearchError") =>
              (/\ pc = "execute_tools"
               /\ pc' = "error"
               /\ history' = history
               /\ visited' = visited
               /\ completions' = completions)
        /\ err = "SearchError" =>
              (/\ pc' = "error"
               /\ err' = err
               /\ history' = history
               /\ visited' = visited
               /\ completions' = completions
               /\ searchLog' = searchLog)
      ]_vars

\* the third search call of the first pass failed after two had returned
C15_Witness ==
    /\ pc = "error"
    /\ err = "SearchError"
    /\ visited = <<"draft">>
    /\ Len(searchLog) = 3
    /\ Len(history) = 2

\* number of queries of the calls before call c
QueriesBefore(calls, c) == Len(QueriesOfCalls(SubSeq(calls, 1, c - 1)))

\* the place of the last occurrence of q in qs
LastIndexOf(qs, q) ==
    CHOOSE i \in 1..Len(qs) :
        qs[i] = q /\ \A k \in (i + 1)..Len(qs) : qs[k] # q

\* C16: a completed pass searches every query of every proposal, and the
\* tool-result turn of a proposal with queries maps each distinct query
\* string once, to the payload of the search made for its last occurrence.
C16_LastOccurrenceWins ==
    [][ (pc = "execute_tools" /\ visited' = Append(visited, "execute_tools")) =>
          LET calls == Last(history).tool_calls
          IN  /\ Len(searchLog') = Len(searchLog) + Len(QueriesOfCalls(calls))
              /\ \A c \in 1..Len(calls) :
                   calls[c].search_queries # <<>> =>
                     \E j \in (Len(history) + 1)..Len(history') :
                        LET out == history'[j].outputs
                            qs == calls[c].search_queries
                        IN  /\ history'[j].tool_call_id = calls[c].id
                            /\ Keys(out) = Elems(qs)
                            /\ Len(out) = Cardinality(Elems(qs))
                            /\ \A e \in 1..Len(out) :
                                 out[e][2] = Len(searchLog) + QueriesBefore(calls, c)
                                               + LastIndexOf(qs, out[e][1])
      ]_vars

\* three searches for the queries a, b, a gave a mapping of two entries, a
\* holding the payload of the third search
C16_Witness ==
    /\ Len(history) >= 3
    /\ history[2].tool_calls[1].search_queries = <<"a", "b", "a">>
    /\ history[3].type = "tool"
    /\ history[3].outputs = << <<"a", 3>>, <<"b", 2>> >>
    /\ Len(searchLog) >= 3

====
